---- MODULE Spec2Model ----
(***************************************************************************)
(* Operon numeric core: the batched interpreter (Evaluate), its non-finite *)
(* sanitization (MinMax / LimitToRange), the residual functor              *)
(* (ParameterizedEvaluation) and the coefficient optimizer (Optimize).     *)
(*                                                                         *)
(* Scalars live on a small grid: the integers -MaxT..MaxT are the finite   *)
(* values, and three further codes stand for +infinity, -infinity and NaN. *)
(* Arithmetic follows IEEE-754 on that grid: an exact result beyond MaxT   *)
(* overflows to an infinity, invalid operations give NaN, quotients and    *)
(* roots round toward zero, transcendental functions round to nearest.     *)
(* Node and row indices are 0-based as in the source.                      *)
(***************************************************************************)
EXTENDS Integers, Sequences, FiniteSets, TLC

\* ------------------------------------------------------------------ bounds
MaxNodes == 4
MaxBatch == 3
MaxOptNodes == 3
MaxIterations == 2
MaxBadNodes == 3
MaxFitNodes == 2
MaxInvocations == 2
MaxCrossNodes == 3

\* ------------------------------------------------------------ scalar grid
MaxT == 24
NumericMax == MaxT
NumericMin == -MaxT
PInf == MaxT + 1
NInf == -(MaxT + 1)
NaN == MaxT + 2
Finite == (-MaxT)..MaxT
ScalarT == Finite \cup {PInf, NInf, NaN}

IsFinite(v) == v \in Finite

IsInf(v) == v = PInf \/ v = NInf

Round(z) == IF z > MaxT THEN PInf ELSE IF z < -MaxT THEN NInf ELSE z

Sign(v) == IF v > 0 THEN 1 ELSE IF v < 0 THEN -1 ELSE 0

Abs(v) == IF v < 0 THEN -v ELSE v

FNeg(a) == IF a = NaN THEN NaN ELSE -a

FAdd(a, b) ==
    IF a = NaN \/ b = NaN THEN NaN
    ELSE IF IsInf(a) /\ IsInf(b) THEN (IF a = b THEN a ELSE NaN)
    ELSE IF IsInf(a) THEN a
    ELSE IF IsInf(b) THEN b
    ELSE Round(a + b)

FSub(a, b) == FAdd(a, FNeg(b))

FMul(a, b) ==
    IF a = NaN \/ b = NaN THEN NaN
    ELSE IF IsInf(a) \/ IsInf(b)
         THEN (IF a = 0 \/ b = 0 THEN NaN
               ELSE IF Sign(a) * Sign(b) > 0 THEN PInf ELSE NInf)
    ELSE Round(a * b)

\* quotient of two finite values, b # 0, rounded toward zero
TruncDiv(a, b) == Sign(a) * Sign(b) * (Abs(a) \div Abs(b))

FDiv(a, b) ==
    IF a = NaN \/ b = NaN THEN NaN
    ELSE IF IsInf(a) /\ IsInf(b) THEN NaN
    ELSE IF IsInf(a) THEN (IF Sign(a) * (IF b < 0 THEN -1 ELSE 1) > 0 THEN PInf ELSE NInf)
    ELSE IF IsInf(b) THEN 0
    ELSE IF b = 0 THEN (IF a = 0 THEN NaN ELSE IF a > 0 THEN PInf ELSE NInf)
    ELSE TruncDiv(a, b)

SinTable == <<0, 1, 1, 0, -1, -1, 0, 1, 1, 0, -1, -1, -1, 0, 1, 1, 0, -1, -1, 0, 1, 1, 0, -1, -1>>
CosTable == <<1, 1, 0, -1, -1, 0, 1, 1, 0, -1, -1, 0, 1, 1, 0, -1, -1, 0, 1, 1, 0, -1, -1, -1, 0>>
TanTable == <<0, 2, -2, 0, 1, -3, 0, 1, -7, 0, 1, -226, -1, 0, 7, -1, 0, 3, -1, 0, 2, -2, 0, 2, -2>>
LogTable == <<0, 1, 1, 1, 2, 2, 2, 2, 2, 2, 2, 2, 3, 3, 3, 3, 3, 3, 3, 3, 3, 3, 3, 3>>
ExpTable == <<1, 3, 7, 20, 55, 148>>

\* largest r >= 0 with r^k <= x, for x >= 0
FloorRoot(x, k) ==
    CHOOSE r \in 0..x : /\ (IF k = 2 THEN r * r ELSE r * r * r) <= x
                        /\ (IF k = 2 THEN (r + 1) * (r + 1) ELSE (r + 1) * (r + 1) * (r + 1)) > x

FLog(a) ==
    IF a = NaN \/ a < 0 THEN NaN
    ELSE IF a = 0 THEN NInf
    ELSE IF a = PInf THEN PInf
    ELSE LogTable[a]

FExp(a) ==
    IF a = NaN THEN NaN
    ELSE IF a = PInf THEN PInf
    ELSE IF a < 0 THEN 0
    ELSE IF a + 1 > Len(ExpTable) THEN PInf
    ELSE Round(ExpTable[a + 1])

FSin(a) ==
    IF ~IsFinite(a) THEN NaN
    ELSE IF a < 0 THEN -SinTable[1 - a] ELSE SinTable[a + 1]

FCos(a) ==
    IF ~IsFinite(a) THEN NaN ELSE CosTable[Abs(a) + 1]

\* tan of a finite value is finite: the table entry saturates at the grid's ends
FTan(a) ==
    IF ~IsFinite(a) THEN NaN
    ELSE LET t == IF a < 0 THEN -TanTable[1 - a] ELSE TanTable[a + 1]
         IN  IF t > MaxT THEN MaxT ELSE IF t < -MaxT THEN -MaxT ELSE t

FSqrt(a) ==
    IF a = NaN \/ a < 0 THEN NaN
    ELSE IF a = PInf THEN PInf
    ELSE FloorRoot(a, 2)

FCbrt(a) ==
    IF a = NaN THEN NaN
    ELSE IF IsInf(a) THEN a
    ELSE Sign(a) * FloorRoot(Abs(a), 3)

FSquare(a) == FMul(a, a)

\* ------------------------------------------------------------------ nodes
BinaryTypes == {"Add", "Sub", "Mul", "Div"}
UnaryTypes == {"Log", "Exp", "Sin", "Cos", "Tan", "Sqrt", "Cbrt", "Square"}
NodeTypes == BinaryTypes \cup UnaryTypes \cup {"Constant", "Variable"}

Node(type, arity, length, depth, value, hash) ==
    [Type |-> type, Arity |-> arity, Length |-> length, Depth |-> depth,
     Value |-> value, HashValue |-> hash]

IsConstant(n) == n.Type = "Constant"

IsVariable(n) == n.Type = "Variable"

IsLeaf(n) == n.Arity = 0

Max2(a, b) == IF a > b THEN a ELSE b

Min2(a, b) == IF a < b THEN a ELSE b

\* ---------------------------------------------------------------- inputs
\* the terminals the enumerated trees are built from
Leaves ==
    { Node("Constant", 0, 0, 1, 3, "Constant"),
      Node("Variable", 0, 0, 1, 2, "x"),
      Node("Variable", 0, 0, 1, 1, "y") }

\* each enumerated tree uses one unary and one binary function type
TypePairs ==
    { <<"Log", "Add">>, <<"Exp", "Sub">>, <<"Sin", "Mul">>, <<"Cos", "Div">>,
      <<"Tan", "Add">>, <<"Sqrt", "Sub">>, <<"Cbrt", "Mul">>, <<"Square", "Div">> }

Root(t) == t[Len(t)]

\* postfix trees of exactly k nodes: a binary node's first operand is the
\* subtree that ends right before it, its second operand the one before that
RECURSIVE TreesOfSize(_, _, _)
TreesOfSize(u, b, k) ==
    IF k = 1 THEN { <<l>> : l \in Leaves }
    ELSE { Append(t, Node(u, 1, Len(t), Root(t).Depth + 1, 0, u)) :
                t \in TreesOfSize(u, b, k - 1) }
         \cup UNION { { t2 \o t1 \o <<Node(b, 2, Len(t1) + Len(t2),
                                          Max2(Root(t1).Depth, Root(t2).Depth) + 1, 0, b)>> :
                            t1 \in TreesOfSize(u, b, j), t2 \in TreesOfSize(u, b, k - 1 - j) } :
                      j \in 1..(k - 2) }

\* Div(Constant 1, Variable y)
ReciprocalTree ==
    << Node("Variable", 0, 0, 1, 1, "y"),
       Node("Constant", 0, 0, 1, 1, "Constant"),
       Node("Div", 2, 2, 2, 0, "Div") >>

Trees ==
    UNION { TreesOfSize(p[1], p[2], k) : p \in TypePairs, k \in 1..MaxNodes }
    \cup {ReciprocalTree}

\* Variables: the variable hash of each column; Values: column-major readings
Datasets ==
    { [Variables |-> <<"x", "y">>, Values |-> << <<1, 2, 3, 4>>, <<1, 0, -1, 12>> >>],
      [Variables |-> <<"y", "x">>, Values |-> << <<3, 4, 5, -4>>, <<6, 6, -2, 0>> >>] }

NumRows(ds) == Len(ds.Values[1])

\* row ranges that lie inside the dataset
Ranges(ds) ==
    { r \in [Start : 0..1, Size : 0..NumRows(ds)] : r.Start + r.Size <= NumRows(ds) }

\* what a scratch cell holds before its first write
Uninitialised == {0, NaN}

\* the cell right behind a buffer holds this mark as long as nobody writes it
Canary == MaxT + 3

\* ------------------------------------------------------------------ state
VARIABLES
    tree,        \* Tree::Nodes(), postfix, root last
    dataset,     \* Dataset::Values(), by variable
    range,       \* Range {Start, Size}
    BATCHSIZE,   \* rows per batch
    parameters,  \* [null, data]: the T const* parameters argument
    uninit,      \* content of freshly allocated scratch memory
    pc,          \* position inside Evaluate
    m,           \* scratch matrix, m[i][r]: column i (node), row r
    indices,     \* dataset column of each Variable node
    idx,         \* parameter cursor
    row,         \* first row of the next batch
    result,      \* the memory of the result span, followed by one cell behind it
    opc,         \* position inside Optimize
    treeIn,      \* the tree as it was handed to Optimize
    target,      \* targetValues
    iterations,  \* Optimize's iterations argument (size_t)
    writeCoefficients,
    report,
    coef,        \* the coefficient vector the solver works on
    eval,        \* the residual functor, once built
    options,     \* Solver::Options
    summary,     \* Solver::Summary
    residuals,   \* the solver's residual buffer, followed by one cell behind it
    calls,       \* invocations of the functor: parameter block and return value
    node,        \* loop variable i of the node loops, when they run node by node
    writes,      \* per cell of the result memory: how often the loop wrote it
    epc,         \* position inside an evaluator's operator()
    kind,        \* which evaluator: "NMSE" or "R2"
    evalIterations,      \* the evaluator's iterations setting
    fitnessEvaluations,  \* counter of the evaluator
    localEvaluations,    \* counter of the evaluator
    fitness,     \* the value operator() returned last
    pc2,         \* a second, concurrent Evaluate invocation: its position,
    m2,          \*   its scratch matrix,
    indices2,    \*   its column indices,
    idx2,        \*   its parameter cursor,
    row2,        \*   its batch row,
    result2,     \*   the memory of its result span,
    range2,      \*   its range
    parameters2, \*   and its parameter buffer
    cpc,         \* position inside SubtreeCrossover::operator()
    lhs,         \* first parent
    rhs,         \* second parent
    maxDepth,    \* SubtreeCrossover::maxDepth
    maxLength,   \* SubtreeCrossover::maxLength
    cut,         \* the cut point selected in lhs: [has_value, value]
    branch,      \* the branch selected in rhs: [has_value, value]
    child        \* the tree operator() returns

inputVars == <<tree, dataset, range, BATCHSIZE, parameters, uninit>>
evalVars == <<pc, m, indices, idx, row, result>>
optVars == <<opc, treeIn, target, iterations, writeCoefficients, report, coef, eval,
             options, summary, residuals, calls>>
fitVars == <<epc, kind, evalIterations, fitnessEvaluations, localEvaluations, fitness>>
parVars == <<pc2, m2, indices2, idx2, row2, result2, range2, parameters2>>
crossVars == <<cpc, lhs, rhs, maxDepth, maxLength, cut, branch, child>>
fineVars == <<node, writes>>
extVars == <<fineVars, fitVars, parVars, crossVars>>
vars == <<inputVars, evalVars, optVars, extVars>>

\* ---------------------------------------------------------------- dataset
\* Dataset::GetIndex: the 0-based column whose variable has this hash
GetIndex(ds, hash) == (CHOOSE k \in 1..Len(ds.Variables) : ds.Variables[k] = hash) - 1

\* dataset.Values().col(k)(r), k and r 0-based
ColumnValue(ds, k, r) == ds.Values[k + 1][r + 1]

\* ------------------------------------------------------------ coefficients
\* Tree::GetCoefficients: Value of every Constant and Variable, in node order
RECURSIVE GetCoefficients(_)
GetCoefficients(nodes) ==
    IF nodes = <<>> THEN <<>>
    ELSE LET n == Head(nodes)
         IN  (IF IsConstant(n) \/ IsVariable(n) THEN <<n.Value>> ELSE <<>>)
             \o GetCoefficients(Tail(nodes))

\* variant: the cursor is advanced before the read, parameters[++idx]
ParamAtNext(p, k) == IF k + 1 < Len(p.data) THEN p.data[k + 2] ELSE NaN

\* parameters[k], k 0-based; a read past the buffer yields whatever lies there
ParamAt(p, k) == IF k < Len(p.data) THEN p.data[k + 1] ELSE NaN

NullParameters == [null |-> TRUE, data |-> <<>>]

Pointer(data) == [null |-> FALSE, data |-> data]

\* ------------------------------------------------------------ sanitization
\* MinMax: smallest and largest finite value, starting from the two sentinels
RECURSIVE MinMaxFrom(_, _, _)
MinMaxFrom(values, min, max) ==
    IF values = <<>> THEN <<min, max>>
    ELSE LET v == Head(values)
         IN  IF ~IsFinite(v) THEN MinMaxFrom(Tail(values), min, max)
             ELSE MinMaxFrom(Tail(values),
                             IF min > v THEN v ELSE min,
                             IF max < v THEN v ELSE max)

MinMax(values) == MinMaxFrom(values, NumericMax, NumericMin)

\* std::clamp(v, lo, hi)
Clamp(v, lo, hi) == IF v < lo THEN lo ELSE IF hi < v THEN hi ELSE v

Mid(min, max) == FDiv(FAdd(min, max), 2)

\* variant: a non-finite entry becomes min instead of the midpoint
LimitToRangeMin(values, min, max) ==
    [k \in 1..Len(values) |->
        IF IsFinite(values[k]) THEN Clamp(values[k], min, max) ELSE min]

LimitToRange(values, min, max) ==
    LET mid == Mid(min, max)
    IN  [k \in 1..Len(values) |->
            IF IsFinite(values[k]) THEN Clamp(values[k], min, max) ELSE mid]

\* lines 206-207: replace nan and inf values
Sanitize(values) == LET mm == MinMax(values) IN LimitToRange(values, mm[1], mm[2])

\* ------------------------------------------------------------- interpreter
Rows(B) == 0..(B - 1)

\* Eigen::Array<T, BATCHSIZE, Dynamic> m(BATCHSIZE, nodes.size()): not initialised
Allocate(n, B, g) == [i \in 0..(n - 1) |-> [r \in Rows(B) |-> g]]

\* setup pass, lines 81-92, from node i on; st = [m, indices, idx]
RECURSIVE SetupFrom(_, _, _, _, _, _)
SetupFrom(nodes, ds, p, B, i, st) ==
    IF i >= Len(nodes) THEN st
    ELSE LET n == nodes[i + 1]
         IN  IF IsConstant(n)
             THEN LET v == IF p.null THEN n.Value ELSE ParamAt(p, st.idx)
                  IN  SetupFrom(nodes, ds, p, B, i + 1,
                                [st EXCEPT !.m[i] = [r \in Rows(B) |-> v], !.idx = @ + 1])
             ELSE IF IsVariable(n)
             THEN SetupFrom(nodes, ds, p, B, i + 1,
                            [st EXCEPT !.indices[i] = GetIndex(ds, n.HashValue), !.idx = @ + 1])
             ELSE SetupFrom(nodes, ds, p, B, i + 1, st)

SetupPass(nodes, ds, p, B, g) ==
    SetupFrom(nodes, ds, p, B, 0,
              [m |-> Allocate(Len(nodes), B, g),
               indices |-> [i \in 0..(Len(nodes) - 1) |-> 0],
               idx |-> 0])

\* variant: the second operand is taken right before the first one's root
SecondChildAdjacent(nodes, i) == (i - 1) - 1

\* index of the second operand of the binary node at i
SecondChild(nodes, i) == (i - 1) - 1 - nodes[(i - 1) + 1].Length

\* one iteration of the switch, lines 100-200; st = [m, idx, fatal]
NodeStep(nodes, ds, rng, p, ind, B, rw, i, st) ==
    LET s == nodes[i + 1]
        remainingRows == Min2(B, rng.Size - rw)
        c1 == i - 1
        c2 == SecondChild(nodes, i)
    IN  CASE s.Type = "Add" -> [st EXCEPT !.m[i] = [r \in Rows(B) |-> FAdd(st.m[c1][r], st.m[c2][r])]]
          [] s.Type = "Mul" -> [st EXCEPT !.m[i] = [r \in Rows(B) |-> FMul(st.m[c1][r], st.m[c2][r])]]
          [] s.Type = "Sub" -> [st EXCEPT !.m[i] = [r \in Rows(B) |-> FSub(st.m[c1][r], st.m[c2][r])]]
          [] s.Type = "Div" -> [st EXCEPT !.m[i] = [r \in Rows(B) |-> FDiv(st.m[c1][r], st.m[c2][r])]]
          [] s.Type = "Log" -> [st EXCEPT !.m[i] = [r \in Rows(B) |-> FLog(st.m[i - 1][r])]]
          [] s.Type = "Exp" -> [st EXCEPT !.m[i] = [r \in Rows(B) |-> FExp(st.m[i - 1][r])]]
          [] s.Type = "Sin" -> [st EXCEPT !.m[i] = [r \in Rows(B) |-> FSin(st.m[i - 1][r])]]
          [] s.Type = "Cos" -> [st EXCEPT !.m[i] = [r \in Rows(B) |-> FCos(st.m[i - 1][r])]]
          [] s.Type = "Tan" -> [st EXCEPT !.m[i] = [r \in Rows(B) |-> FTan(st.m[i - 1][r])]]
          [] s.Type = "Sqrt" -> [st EXCEPT !.m[i] = [r \in Rows(B) |-> FSqrt(st.m[i - 1][r])]]
          [] s.Type = "Cbrt" -> [st EXCEPT !.m[i] = [r \in Rows(B) |-> FCbrt(st.m[i - 1][r])]]
          [] s.Type = "Square" -> [st EXCEPT !.m[i] = [r \in Rows(B) |-> FSquare(st.m[i - 1][r])]]
          [] s.Type = "Constant" -> [st EXCEPT !.idx = @ + 1]
          [] s.Type = "Variable" ->
                LET w == IF p.null THEN s.Value ELSE ParamAt(p, st.idx)
                IN  [st EXCEPT
                       !.m[i] = [r \in Rows(B) |->
                                   IF r < remainingRows
                                   THEN FMul(w, ColumnValue(ds, ind[i], rng.Start + rw + r))
                                   ELSE @[r]],
                       !.idx = IF p.null THEN @ ELSE @ + 1]
          [] OTHER -> [st EXCEPT !.fatal = TRUE]

\* the node loop of one batch, from node i on; stops at std::terminate
RECURSIVE NodesFrom(_, _, _, _, _, _, _, _, _)
NodesFrom(nodes, ds, rng, p, ind, B, rw, i, st) ==
    IF i >= Len(nodes) \/ st.fatal THEN st
    ELSE NodesFrom(nodes, ds, rng, p, ind, B, rw, i + 1,
                   NodeStep(nodes, ds, rng, p, ind, B, rw, i, st))

\* lines 98-201: idx = 0, then every node
BatchPass(nodes, ds, rng, p, ind, B, rw, mm) ==
    NodesFrom(nodes, ds, rng, p, ind, B, rw, 0, [m |-> mm, idx |-> 0, fatal |-> FALSE])

\* line 94: m.col(nodes.size()-1); with no node at all the column lies outside
\* the matrix and reads as whatever memory is there
LastCol(mm, n, B, g) == IF n = 0 THEN [r \in Rows(B) |-> g] ELSE mm[n - 1]

\* variant: the copy takes the last remainingRows rows of the root column
CopyOutTail(res, lastCol, rw, remainingRows) ==
    [k \in 1..Len(res) |->
        IF k - 1 >= rw /\ k - 1 < rw + remainingRows
        THEN lastCol[(k - 1 - rw) + (Cardinality(DOMAIN lastCol) - remainingRows)]
        ELSE res[k]]

\* line 203: res.segment(row, remainingRows) = lastCol.segment(0, remainingRows)
CopyOut(res, lastCol, rw, remainingRows) ==
    [k \in 1..Len(res) |->
        IF k - 1 >= rw /\ k - 1 < rw + remainingRows THEN lastCol[k - 1 - rw] ELSE res[k]]

\* the span's view of its memory
Span(mem, n) == SubSeq(mem, 1, n)

\* write the n values back into the span's memory
WriteSpan(mem, values) ==
    [k \in 1..Len(mem) |-> IF k <= Len(values) THEN values[k] ELSE mem[k]]

\* Operon::Vector<T> result(range.Size()): value-initialised
NewVector(n) == [k \in 1..(n + 1) |-> IF k <= n THEN 0 ELSE Canary]

\* the batch loop, lines 97-204, from row rw on
RECURSIVE BatchesFrom(_, _, _, _, _, _, _, _, _, _)
BatchesFrom(nodes, ds, rng, p, ind, B, g, rw, mm, mem) ==
    IF rw >= rng.Size THEN mem
    ELSE LET st == BatchPass(nodes, ds, rng, p, ind, B, rw, mm)
         IN  BatchesFrom(nodes, ds, rng, p, ind, B, g, rw + B, st.m,
                         CopyOut(mem, LastCol(st.m, Len(nodes), B, g), rw,
                                 Min2(B, rng.Size - rw)))

\* Evaluate(tree, dataset, range, parameters, result) as a whole: the memory
\* of the result span when it returns
EvaluateInto(nodes, ds, rng, p, B, g, mem) ==
    LET su == SetupPass(nodes, ds, p, B, g)
        raw == BatchesFrom(nodes, ds, rng, p, su.indices, B, g, 0, su.m, mem)
    IN  WriteSpan(raw, Sanitize(Span(raw, rng.Size)))

\* the allocating overload, lines 66-72
Evaluate(nodes, ds, rng, p, B, g) ==
    Span(EvaluateInto(nodes, ds, rng, p, B, g, NewVector(rng.Size)), rng.Size)

\* ---------------------------------------------------------------- actions
numRows == range.Size

remainingRows == Min2(BATCHSIZE, numRows - row)

\* lines 77-94: allocate the scratch matrix, run the setup pass
Setup ==
    /\ pc = "setup"
    /\ LET su == SetupPass(tree, dataset, parameters, BATCHSIZE, uninit)
       IN  /\ m' = su.m
           /\ indices' = su.indices
           /\ idx' = su.idx
    /\ row' = 0
    /\ pc' = "batch"
    /\ UNCHANGED <<inputVars, optVars, result>>
    /\ UNCHANGED extVars

\* one iteration of the loop at line 97
Batch ==
    /\ pc = "batch"
    /\ row < numRows
    /\ LET st == BatchPass(tree, dataset, range, parameters, indices, BATCHSIZE, row, m)
       IN  /\ m' = st.m
           /\ idx' = st.idx
           /\ IF st.fatal
              THEN /\ pc' = "terminated"
                   /\ UNCHANGED <<result, row>>
              ELSE /\ result' = CopyOut(result, LastCol(st.m, Len(tree), BATCHSIZE, uninit),
                                         row, remainingRows)
                   /\ row' = row + BATCHSIZE
                   /\ pc' = "batch"
    /\ UNCHANGED <<inputVars, optVars, indices>>
    /\ UNCHANGED extVars

\* lines 205-207, once the loop has ended
Finish ==
    /\ pc = "batch"
    /\ row >= numRows
    /\ result' = WriteSpan(result, Sanitize(Span(result, numRows)))
    /\ pc' = "done"
    /\ UNCHANGED <<inputVars, optVars, m, indices, idx, row>>
    /\ UNCHANGED extVars

\* the parameter buffers a caller passes: none, or the tree's own coefficients
ParameterChoices(nodes) == { NullParameters, Pointer(GetCoefficients(nodes)) }

\* --------------------------------------------------------------- optimizer
\* widths of size_t and int, scaled down
SizeBits == 16
IntBits == 8

RECURSIVE Pow2(_)
Pow2(n) == IF n = 0 THEN 1 ELSE 2 * Pow2(n - 1)

\* a - b in size_t
SizeSub(a, b) == (a + Pow2(SizeBits) - b) % Pow2(SizeBits)

\* conversion of a size_t to int: the low bits, in two's complement
ToInt(v) ==
    LET w == v % Pow2(IntBits)
    IN  IF w >= Pow2(IntBits - 1) THEN w - Pow2(IntBits) ELSE w

\* Solver::Summary summary; as default-constructed
DefaultSummary == [iterations |-> 0, message |-> "ceres::Solve was not called."]

\* Solver::Options options; as default-constructed
DefaultOptions ==
    [max_num_iterations |-> 50, linear_solver_type |-> "SPARSE_NORMAL_CHOLESKY",
     minimizer_progress_to_stdout |-> FALSE, num_threads |-> 1]

\* lines 275-279
MakeOptions(iters, rep) ==
    [max_num_iterations |-> ToInt(SizeSub(iters, 1)), linear_solver_type |-> "DENSE_QR",
     minimizer_progress_to_stdout |-> rep, num_threads |-> 1]

\* variant: the early return is never taken
NoCoefficientsNever(c) == FALSE

\* line 251: coef.empty()
NoCoefficients(c) == c = <<>>

\* Tree::SetCoefficients: the k-th coefficient becomes the Value of the k-th
\* Constant or Variable node, in node order
SetCoefficients(nodes, c) ==
    [i \in 1..Len(nodes) |->
        IF IsConstant(nodes[i]) \/ IsVariable(nodes[i])
        THEN [nodes[i] EXCEPT !.Value = c[Len(GetCoefficients(SubSeq(nodes, 1, i)))]]
        ELSE nodes[i]]

\* variant: the coefficients are written whatever the flag says
WriteBackAlways(nodes, c, wc) == SetCoefficients(nodes, c)

\* lines 289-291
WriteBack(nodes, c, wc) == IF wc THEN SetCoefficients(nodes, c) ELSE nodes

\* variant: the target is subtracted from the wrong side
ResidualFunctorReversed(nodes, ds, tgt, rng, p, B, g, mem) ==
    LET ev == EvaluateInto(nodes, ds, rng, Pointer(p), B, g, mem)
    IN  [k \in 1..Len(mem) |-> IF k <= rng.Size THEN FSub(tgt[k], ev[k]) ELSE ev[k]]

\* ParameterizedEvaluation::operator(): the residual memory it leaves
ResidualFunctor(nodes, ds, tgt, rng, p, B, g, mem) ==
    LET ev == EvaluateInto(nodes, ds, rng, Pointer(p), B, g, mem)
    IN  [k \in 1..Len(mem) |-> IF k <= rng.Size THEN FSub(ev[k], tgt[k]) ELSE ev[k]]

\* lines 249-279: extract the coefficients; return at once when there are
\* none, else build the functor, the cost function and the options
OptimizeEnter ==
    /\ opc = "start"
    /\ coef' = GetCoefficients(tree)
    /\ IF NoCoefficients(coef')
       THEN /\ summary' = DefaultSummary
            /\ opc' = "done"
            /\ UNCHANGED <<eval, options>>
       ELSE /\ eval' = "built"
            /\ options' = MakeOptions(iterations, report)
            /\ summary' = DefaultSummary
            /\ opc' = "solve"
    /\ UNCHANGED <<inputVars, evalVars, treeIn, target, iterations, writeCoefficients,
                   report, residuals, calls>>
    /\ UNCHANGED extVars

\* line 280, Solve: options with a negative iteration cap are rejected,
\* otherwise the minimizer starts by evaluating the initial point
SolveStart ==
    /\ opc = "solve"
    /\ IF options.max_num_iterations < 0
       THEN /\ summary' = [iterations |-> 0, message |-> "invalid options"]
            /\ opc' = "solved"
       ELSE /\ summary' = [iterations |-> 0, message |-> "minimizing"]
            /\ opc' = "evaluate"
    /\ UNCHANGED <<inputVars, evalVars, treeIn, target, iterations, writeCoefficients,
                   report, coef, eval, options, residuals, calls>>
    /\ UNCHANGED extVars

\* coefficient values the minimizer tries
TrialValues == {-1, 2}

TrialPoints(c) == { [k \in 1..Len(c) |-> v] : v \in TrialValues }

\* lines 219-228: the solver invokes the functor on a parameter block, first
\* the initial point, then its trial points
Residual ==
    /\ opc = "evaluate"
    /\ \E p \in (IF calls = <<>> THEN {coef} ELSE TrialPoints(coef)) :
          /\ residuals' = ResidualFunctor(tree, dataset, target, range, p,
                                          BATCHSIZE, uninit, residuals)
          /\ calls' = Append(calls, [p |-> p, ret |-> TRUE])
    /\ opc' = "step"
    /\ UNCHANGED <<inputVars, evalVars, treeIn, target, iterations, writeCoefficients,
                   report, coef, eval, options, summary>>
    /\ UNCHANGED extVars

\* line 280, Solve: the minimizer records the iteration, keeps its point or
\* moves to the one just evaluated, and goes on or stops
SolverStep ==
    /\ opc = "step"
    /\ coef' \in {coef, calls[Len(calls)].p}
    /\ \E stop \in BOOLEAN :
          IF stop \/ summary.iterations >= options.max_num_iterations
          THEN /\ summary' = [iterations |-> summary.iterations + 1, message |-> "terminated"]
               /\ opc' = "solved"
          ELSE /\ summary' = [summary EXCEPT !.iterations = @ + 1]
               /\ opc' = "evaluate"
    /\ UNCHANGED <<inputVars, evalVars, treeIn, target, iterations, writeCoefficients,
                   report, eval, options, residuals, calls>>
    /\ UNCHANGED extVars

\* lines 282-292
OptimizeReturn ==
    /\ opc = "solved"
    /\ tree' = WriteBack(tree, coef, writeCoefficients)
    /\ opc' = "done"
    /\ UNCHANGED <<dataset, range, BATCHSIZE, parameters, uninit, evalVars, treeIn, target,
                   iterations, writeCoefficients, report, coef, eval, options, summary,
                   residuals, calls>>
    /\ UNCHANGED extVars

\* no node-by-node loop, no evaluator, no second invocation, no crossover
FineIdle == node = 0 /\ writes = <<>>

FitIdle ==
    /\ epc = "idle"
    /\ kind = "none"
    /\ evalIterations = 0
    /\ fitnessEvaluations = 0
    /\ localEvaluations = 0
    /\ fitness = 0

ParIdle ==
    /\ pc2 = "idle"
    /\ m2 = <<>>
    /\ indices2 = <<>>
    /\ idx2 = 0
    /\ row2 = 0
    /\ result2 = <<>>
    /\ range2 = [Start |-> 0, Size |-> 0]
    /\ parameters2 = NullParameters

NoValue == [has_value |-> FALSE, value |-> 0]

CrossIdle ==
    /\ cpc = "idle"
    /\ lhs = <<>>
    /\ rhs = <<>>
    /\ maxDepth = 0
    /\ maxLength = 0
    /\ cut = NoValue
    /\ branch = NoValue
    /\ child = <<>>

OptTypePairs == { <<"Exp", "Sub">>, <<"Square", "Div">> }

\* the trees handed to Optimize, among them the tree without any node
OptTrees ==
    UNION { TreesOfSize(p[1], p[2], k) : p \in OptTypePairs, k \in 1..MaxOptNodes }
    \cup { <<>> }

OptRanges(ds) == { r \in Ranges(ds) : r.Start = 1 }

\* targetValues: a column of the dataset over the range
TargetOf(ds, rng) == [k \in 1..rng.Size |-> ColumnValue(ds, 0, rng.Start + k - 1)]

\* ceres' residual buffer: range.Size cells, not initialised
NewResiduals(n, g) == [k \in 1..(n + 1) |-> IF k <= n THEN g ELSE Canary]

InitOpt ==
    /\ tree \in OptTrees
    /\ dataset \in Datasets
    /\ range \in OptRanges(dataset)
    /\ BATCHSIZE \in 2..MaxBatch
    /\ parameters = NullParameters
    /\ uninit \in Uninitialised
    /\ pc = "idle"
    /\ m = <<>>
    /\ indices = <<>>
    /\ idx = 0
    /\ row = 0
    /\ result = <<>>
    /\ opc = "start"
    /\ treeIn = tree
    /\ target = TargetOf(dataset, range)
    /\ iterations \in 0..MaxIterations
    /\ writeCoefficients \in BOOLEAN
    /\ report \in BOOLEAN
    /\ coef = <<>>
    /\ eval = "none"
    /\ options = DefaultOptions
    /\ summary = DefaultSummary
    /\ residuals = NewResiduals(range.Size, uninit)
    /\ calls = <<>>
    /\ FineIdle /\ FitIdle /\ ParIdle /\ CrossIdle

NextOpt == OptimizeEnter \/ SolveStart \/ Residual \/ SolverStep \/ OptimizeReturn

SpecOpt == InitOpt /\ [][NextOpt]_vars

\* Optimize is not running
OptIdle ==
    /\ opc = "idle"
    /\ treeIn = tree
    /\ target = <<>>
    /\ iterations = 0
    /\ writeCoefficients = FALSE
    /\ report = FALSE
    /\ coef = <<>>
    /\ eval = "none"
    /\ options = DefaultOptions
    /\ summary = DefaultSummary
    /\ residuals = <<>>
    /\ calls = <<>>

Init ==
    /\ tree \in Trees
    /\ dataset \in Datasets
    /\ range \in Ranges(dataset)
    /\ BATCHSIZE \in 1..MaxBatch
    /\ parameters \in ParameterChoices(tree)
    /\ uninit \in Uninitialised
    /\ pc = "setup"
    /\ m = <<>>
    /\ indices = <<>>
    /\ idx = 0
    /\ row = 0
    /\ result = NewVector(range.Size)
    /\ OptIdle
    /\ FineIdle /\ FitIdle /\ ParIdle /\ CrossIdle

Next == Setup \/ Batch \/ Finish

Spec == Init /\ [][Next]_vars

TypeOK ==
    /\ pc \in {"setup", "batch", "done", "terminated"}
    /\ Len(result) = range.Size + 1
    /\ \A k \in 1..range.Size : result[k] \in ScalarT

\* ------------------------------------------------------- well-formed trees
ArityOf(type) ==
    IF type \in BinaryTypes THEN 2 ELSE IF type \in UnaryTypes THEN 1 ELSE 0

\* every node has a known type, that type's arity, operands inside the
\* sequence and the length of its subtree; the root's subtree is the sequence
WellFormed(nodes) ==
    /\ Len(nodes) >= 1
    /\ Root(nodes).Length + 1 = Len(nodes)
    /\ \A i \in 0..(Len(nodes) - 1) :
          LET n == nodes[i + 1]
          IN  /\ n.Type \in NodeTypes
              /\ n.Arity = ArityOf(n.Type)
              /\ n.Length <= i
              /\ CASE n.Arity = 0 -> n.Length = 0
                   [] n.Arity = 1 -> i >= 1 /\ n.Length = nodes[i].Length + 1
                   [] OTHER -> /\ i >= 2
                               /\ i - 2 - nodes[i].Length >= 0
                               /\ n.Length = nodes[i].Length
                                             + nodes[i - 1 - nodes[i].Length].Length + 2

\* ---------------------------------------------------- reference evaluation
\* value of the subtree rooted at node i on dataset row r, by recursion on
\* the tree: first operand at i-1, second operand at i-2-Length(i-1)
RECURSIVE RefEval(_, _, _, _)
RefEval(nodes, ds, i, r) ==
    LET n == nodes[i + 1]
        a == RefEval(nodes, ds, i - 1, r)
        b == RefEval(nodes, ds, i - 2 - nodes[i].Length, r)
    IN  CASE n.Type = "Constant" -> n.Value
          [] n.Type = "Variable" ->
                FMul(n.Value, ds.Values[GetIndex(ds, n.HashValue) + 1][r + 1])
          [] n.Type = "Add" -> FAdd(a, b)
          [] n.Type = "Sub" -> FSub(a, b)
          [] n.Type = "Mul" -> FMul(a, b)
          [] n.Type = "Div" -> FDiv(a, b)
          [] n.Type = "Log" -> FLog(a)
          [] n.Type = "Exp" -> FExp(a)
          [] n.Type = "Sin" -> FSin(a)
          [] n.Type = "Cos" -> FCos(a)
          [] n.Type = "Tan" -> FTan(a)
          [] n.Type = "Sqrt" -> FSqrt(a)
          [] n.Type = "Cbrt" -> FCbrt(a)
          [] n.Type = "Square" -> FSquare(a)

RangeRows == { range.Start + r : r \in 0..(range.Size - 1) }

\* every subtree has a finite value on every row of the range
IntermediateFinite ==
    \A i \in 0..(Len(tree) - 1) : \A r \in RangeRows : IsFinite(RefEval(tree, dataset, i, r))

AllFiniteSeq(values) == \A k \in 1..Len(values) : IsFinite(values[k])

NoFiniteSeq(values) == \A k \in 1..Len(values) : ~IsFinite(values[k])

\* the output of the batched pass before sanitization, recomputed
RawOutput ==
    LET su == SetupPass(tree, dataset, parameters, BATCHSIZE, uninit)
    IN  Span(BatchesFrom(tree, dataset, range, parameters, su.indices, BATCHSIZE, uninit,
                         0, su.m, NewVector(range.Size)), range.Size)

Returned == Span(result, range.Size)

\* ------------------------------------------------------------------ claims

\* C1: when all intermediate values are finite, Evaluate returns at output
\* index r the reference recursive evaluation of the tree on row Start+r.
C1_MatchesReference ==
    (pc = "done" /\ WellFormed(tree) /\ IntermediateFinite)
        => \A r \in 0..(range.Size - 1) :
              result[r + 1] = RefEval(tree, dataset, Len(tree) - 1, range.Start + r)

\* Mul(Variable(x, weight 2), Constant 3) on x = [1,2,3,4] has returned [6,12,18,24]
C1_Witness ==
    /\ pc = "done"
    /\ Len(tree) = 3
    /\ tree[3].Type = "Mul"
    /\ IsVariable(tree[2]) /\ tree[2].HashValue = "x" /\ tree[2].Value = 2
    /\ IsConstant(tree[1]) /\ tree[1].Value = 3
    /\ range = [Start |-> 0, Size |-> 4]
    /\ Returned = <<6, 12, 18, 24>>

\* C2: every entry of the vector Evaluate returns is finite.
C2_OutputFinite ==
    (pc = "done" /\ WellFormed(tree)) => AllFiniteSeq(Returned)

\* C3: with at least one finite raw value, sanitization puts (min+max)/2 of
\* the finite raw values in place of every non-finite entry, keeps every
\* finite entry, and every returned entry lies in [min, max].
C3_MidrangeInBounds ==
    [][ (pc = "batch" /\ pc' = "done" /\ WellFormed(tree)
            /\ ~NoFiniteSeq(Span(result, range.Size)))
        => LET raw == Span(result, range.Size)
               out == Span(result', range.Size)
               fin == { raw[k] : k \in { j \in 1..Len(raw) : IsFinite(raw[j]) } }
               min == CHOOSE v \in fin : \A w \in fin : v <= w
               max == CHOOSE v \in fin : \A w \in fin : v >= w
           IN  \A k \in 1..Len(raw) :
                  /\ IsFinite(raw[k]) => out[k] = raw[k]
                  /\ ~IsFinite(raw[k]) => out[k] = FDiv(FAdd(min, max), 2)
                  /\ IsFinite(out[k]) /\ min <= out[k] /\ out[k] <= max ]_vars

\* C4: with no finite raw value (Size >= 1) every returned entry is the
\* midpoint of the two sentinels, (MaxT + MinT)/2, and that value is finite.
C4_AllMidrangeOfSentinels ==
    [][ (pc = "batch" /\ pc' = "done" /\ range.Size >= 1
            /\ NoFiniteSeq(Span(result, range.Size)))
        => \A k \in 1..range.Size :
              /\ result'[k] = FDiv(FAdd(NumericMax, NumericMin), 2)
              /\ IsFinite(result'[k]) ]_vars

\* Evaluate has returned from a raw output without any finite value
C4_Witness ==
    /\ pc = "done"
    /\ range.Size >= 2
    /\ NoFiniteSeq(RawOutput)
    /\ \A k \in 1..range.Size : result[k] = 0

\* C5: the returned vector is the same for every batch size and for every
\* content of the rows a partial batch leaves unwritten.
C5_BatchInvariant ==
    (pc = "done" /\ WellFormed(tree))
        => \A b \in 1..MaxBatch : \A g \in Uninitialised :
              Returned = Evaluate(tree, dataset, range, parameters, b, g)

\* a run whose last batch was partial, over a tree that reads a variable
\* Div(Constant 1, Variable y) on y = [1,0,-1] has returned [1,0,-1]
C3_Example ==
    /\ pc = "done"
    /\ tree = ReciprocalTree
    /\ dataset.Variables[2] = "y"
    /\ range = [Start |-> 0, Size |-> 3]
    /\ RawOutput = <<1, PInf, -1>>
    /\ Returned = <<1, 0, -1>>

C5_Witness ==
    /\ pc = "done"
    /\ BATCHSIZE > 1
    /\ range.Size > BATCHSIZE
    /\ range.Size % BATCHSIZE # 0
    /\ Len(tree) = 4
    /\ \E i \in 1..Len(tree) : IsVariable(tree[i])

\* the other way of passing the tree's coefficients
OtherParameters ==
    IF parameters.null THEN Pointer(GetCoefficients(tree)) ELSE NullParameters

\* C6: Evaluate with a null parameter pointer and Evaluate with the tree's
\* coefficient vector give the same output.
C6_ParameterEquivalence ==
    (pc = "done" /\ WellFormed(tree))
        => Returned = Evaluate(tree, dataset, range, OtherParameters, BATCHSIZE, uninit)

\* a run reading a buffer of three coefficients over more than one batch
C6_Witness ==
    /\ pc = "done"
    /\ ~parameters.null
    /\ Len(parameters.data) >= 2
    /\ \E i \in 1..Len(tree) : IsConstant(tree[i])
    /\ \E i \in 1..Len(tree) : IsVariable(tree[i])
    /\ range.Size > BATCHSIZE

\* the nodes with their coefficient blanked: what a coefficient write may not touch
Structure(nodes) ==
    [i \in 1..Len(nodes) |->
        IF IsConstant(nodes[i]) \/ IsVariable(nodes[i])
        THEN [nodes[i] EXCEPT !.Value = 0] ELSE nodes[i]]

LastCall == calls[Len(calls)]

\* C7: an invocation of the residual functor with parameter block p leaves
\* Evaluate(tree, dataset, range, p)[i] - target[i] in residuals[i] for every
\* i in [0, Size), writes nothing behind the buffer and returns true.
C7_ResidualIsPredictionMinusTarget ==
    opc = "step"
        => /\ \A k \in 1..range.Size :
                residuals[k] = FSub(Evaluate(tree, dataset, range, Pointer(LastCall.p),
                                             BATCHSIZE, uninit)[k],
                                    target[k])
           /\ Len(residuals) = range.Size + 1
           /\ residuals[range.Size + 1] = Canary
           /\ LastCall.ret = TRUE

\* the functor has just run on a trial point, over a partial last batch
C7_Witness ==
    /\ opc = "step"
    /\ Len(calls) = 2
    /\ LastCall.p # coef
    /\ range.Size = 3
    /\ BATCHSIZE = 2
    /\ \E k \in 1..range.Size : residuals[k] # 0 /\ IsFinite(residuals[k])

\* C8: on a tree without Constant and Variable nodes Optimize returns a
\* default summary, builds no functor, does not invoke the solver and leaves
\* the tree alone, whatever iterations, writeCoefficients and report are.
C8_NoCoefficientsNoWork ==
    GetCoefficients(treeIn) = <<>>
        => /\ eval = "none"
           /\ options = DefaultOptions
           /\ calls = <<>>
           /\ summary = DefaultSummary
           /\ tree = treeIn
           /\ opc \in {"start", "done"}

\* Optimize has returned from a tree without coefficients
C8_Witness ==
    /\ opc = "done"
    /\ GetCoefficients(treeIn) = <<>>
    /\ iterations > 0
    /\ writeCoefficients
    /\ report

\* C9: the iteration cap handed to the solver is max(0, iterations - 1).
C9_IterationCap ==
    eval = "built" => options.max_num_iterations = Max2(0, iterations - 1)

\* C10: Optimize never changes the tree's structure; the tree is unchanged
\* until the solve is over; afterwards it is unchanged when writeCoefficients
\* is false, and otherwise only the Value of the k-th Constant/Variable node
\* changes, to the k-th coefficient.
C10_OnlyCoefficientsWritten ==
    /\ Structure(tree) = Structure(treeIn)
    /\ opc # "done" => tree = treeIn
    /\ (opc = "done" /\ ~writeCoefficients) => tree = treeIn
    /\ (opc = "done" /\ writeCoefficients) => GetCoefficients(tree) = coef

\* the solver moved the coefficients and Optimize wrote them into the tree
C10_Witness ==
    /\ opc = "done"
    /\ writeCoefficients
    /\ tree # treeIn
    /\ Len(tree) = 3
    /\ coef # GetCoefficients(treeIn)


\* ------------------------------------------------- trees with a foreign type
\* trees in which one node carries a type value outside the NodeType set
BadTrees ==
    UNION { { [t EXCEPT ![k].Type = "Unknown"] : k \in 1..Len(t) } :
            t \in UNION { TreesOfSize("Exp", "Add", n) : n \in 1..MaxBadNodes } }

HasUnknownType(nodes) == \E k \in 1..Len(nodes) : nodes[k].Type \notin NodeTypes

\* Evaluate called on such a tree
InitBad ==
    /\ tree \in BadTrees
    /\ dataset \in Datasets
    /\ range \in Ranges(dataset)
    /\ BATCHSIZE \in 1..MaxBatch
    /\ parameters \in ParameterChoices(tree)
    /\ uninit \in Uninitialised
    /\ pc = "setup"
    /\ m = <<>>
    /\ indices = <<>>
    /\ idx = 0
    /\ row = 0
    /\ result = NewVector(range.Size)
    /\ OptIdle
    /\ FineIdle /\ FitIdle /\ ParIdle /\ CrossIdle

SpecBad == InitBad /\ [][Next]_vars

\* C11: Evaluate on a tree that contains a node of a type outside the closed
\* set never returns a result, whatever the range, a range of Size 0 included
C11_UnknownTypeFatal == HasUnknownType(tree) => pc # "done"


\* ------------------------------------------------------ fitness evaluators
RECURSIVE Sum(_)
Sum(s) == IF s = <<>> THEN 0 ELSE Head(s) + Sum(Tail(s))

Products(a, b) == [k \in 1..Len(a) |-> a[k] * b[k]]

\* NormalizedMeanSquaredError(x, y): the mean squared error of x against y
\* over the variance of y, in scalar arithmetic: n * sum (x-y)^2 over
\* n * sum y^2 - (sum y)^2
NormalizedMeanSquaredError(x, y) ==
    LET n == Len(y)
        d == [k \in 1..n |-> x[k] - y[k]]
        num == n * Sum(Products(d, d))
        den == n * Sum(Products(y, y)) - Sum(y) * Sum(y)
    IN  IF ~AllFiniteSeq(x) \/ ~AllFiniteSeq(y) \/ n = 0 THEN NaN
        ELSE IF den = 0 THEN (IF num = 0 THEN NaN ELSE PInf)
        ELSE Round(num \div den)

\* RSquared(x, y): the squared Pearson correlation, NaN when a variance is
\* zero; the accumulated rounding error lets the routine return the grid
\* value next to the exact one, also right below 0 and right above 1
RSquared(x, y) ==
    LET n == Len(y)
        cov == n * Sum(Products(x, y)) - Sum(x) * Sum(y)
        vx == n * Sum(Products(x, x)) - Sum(x) * Sum(x)
        vy == n * Sum(Products(y, y)) - Sum(y) * Sum(y)
    IN  IF ~AllFiniteSeq(x) \/ ~AllFiniteSeq(y) \/ n = 0 \/ vx * vy = 0 THEN {NaN}
        ELSE LET q == (cov * cov) \div (vx * vy) IN {q - 1, q, q + 1}

LowerBound == 0
UpperBound == 1

\* variant: the value is returned as computed
NmseUnchecked(nmse) == nmse

\* evaluator.hpp lines 56-59
NmseOrMax(nmse) == IF ~IsFinite(nmse) THEN NumericMax ELSE nmse

\* evaluator.hpp lines 97-101: the value std::clamp returns is dropped
RSquaredFitness(r) ==
    LET r2 == IF ~IsFinite(r) THEN 0 ELSE r
    IN  FAdd(FSub(UpperBound, r2), LowerBound)

\* the values operator() can return for a prediction
FitnessValues(k, estimatedValues, targetValues) ==
    IF k = "NMSE"
    THEN { NmseOrMax(NormalizedMeanSquaredError(estimatedValues, targetValues)) }
    ELSE { RSquaredFitness(r) : r \in RSquared(estimatedValues, targetValues) }

\* variant: the optimizer is run whatever the setting
RunsOptimizerAlways(iters) == TRUE

\* evaluator.hpp line 49
RunsOptimizer(iters) == iters > 0

\* variant: the counter is overwritten
LocalEvaluationsReplaced(count, summ) == summ.iterations

\* evaluator.hpp line 51
LocalEvaluationsAdded(count, summ) == count + summ.iterations

\* Evaluate<Scalar>(genotype, dataset, trainingRange) is entered
CallEvaluate ==
    /\ parameters' = NullParameters
    /\ pc' = "setup"
    /\ m' = <<>>
    /\ indices' = <<>>
    /\ idx' = 0
    /\ row' = 0
    /\ result' = NewVector(range.Size)

\* OptimizeAutodiff(genotype, dataset, targetValues, trainingRange, iterations)
\* is entered; writeCoefficients and report take their defaults
CallOptimize ==
    /\ opc' = "start"
    /\ iterations' = evalIterations
    /\ writeCoefficients' = TRUE
    /\ report' = FALSE
    /\ coef' = <<>>
    /\ eval' = "none"
    /\ options' = DefaultOptions
    /\ summary' = DefaultSummary
    /\ residuals' = NewResiduals(range.Size, uninit)
    /\ calls' = <<>>

\* evaluator.hpp lines 41-54: count the invocation, take the target, then
\* either hand the tree to the optimizer or evaluate it right away
EvaluatorEnter ==
    /\ epc \in {"idle", "returned"}
    /\ fitnessEvaluations < MaxInvocations
    /\ fitnessEvaluations' = fitnessEvaluations + 1
    /\ target' = TargetOf(dataset, range)
    /\ treeIn' = tree
    /\ IF RunsOptimizer(evalIterations)
       THEN /\ CallOptimize
            /\ epc' = "optimize"
            /\ UNCHANGED <<parameters, evalVars>>
       ELSE /\ CallEvaluate
            /\ epc' = "evaluate"
            /\ UNCHANGED <<opc, iterations, writeCoefficients, report, coef, eval,
                           options, summary, residuals, calls>>
    /\ UNCHANGED <<tree, dataset, range, BATCHSIZE, uninit>>
    /\ UNCHANGED <<fineVars, kind, evalIterations, localEvaluations, fitness, parVars, crossVars>>

\* evaluator.hpp lines 50-54: the optimizer has returned its summary
EvaluatorOptimized ==
    /\ epc = "optimize"
    /\ opc = "done"
    /\ localEvaluations' = LocalEvaluationsAdded(localEvaluations, summary)
    /\ CallEvaluate
    /\ epc' = "evaluate"
    /\ UNCHANGED <<tree, dataset, range, BATCHSIZE, uninit, optVars>>
    /\ UNCHANGED <<fineVars, kind, evalIterations, fitnessEvaluations, fitness, parVars, crossVars>>

\* evaluator.hpp lines 55-59 and 96-101: reduce the prediction to the fitness
EvaluatorReturn ==
    /\ epc = "evaluate"
    /\ pc = "done"
    /\ fitness' \in FitnessValues(kind, Span(result, range.Size), target)
    /\ epc' = "returned"
    /\ UNCHANGED <<inputVars, evalVars, optVars>>
    /\ UNCHANGED <<fineVars, kind, evalIterations, fitnessEvaluations, localEvaluations,
                   parVars, crossVars>>

\* the individuals handed to an evaluator
FitTrees ==
    UNION { TreesOfSize("Exp", "Sub", k) : k \in 1..MaxFitNodes } \cup {ReciprocalTree}

InitFit ==
    /\ tree \in FitTrees
    /\ dataset \in Datasets
    /\ range \in OptRanges(dataset)
    /\ BATCHSIZE \in 2..MaxBatch
    /\ parameters = NullParameters
    /\ uninit \in Uninitialised
    /\ pc = "idle"
    /\ m = <<>>
    /\ indices = <<>>
    /\ idx = 0
    /\ row = 0
    /\ result = <<>>
    /\ OptIdle
    /\ epc = "idle"
    /\ kind \in {"NMSE", "R2"}
    /\ evalIterations \in 0..MaxIterations
    /\ fitnessEvaluations = 0
    /\ localEvaluations = 0
    /\ fitness = 0
    /\ FineIdle /\ ParIdle /\ CrossIdle

NextFit ==
    \/ EvaluatorEnter
    \/ OptimizeEnter \/ SolveStart \/ Residual \/ SolverStep \/ OptimizeReturn
    \/ EvaluatorOptimized
    \/ Setup \/ Batch \/ Finish
    \/ EvaluatorReturn

SpecFit == InitFit /\ [][NextFit]_vars


\* the prediction of the tree as it is now, and its error against the target
Prediction == Evaluate(tree, dataset, range, NullParameters, BATCHSIZE, uninit)

PredictionNmse == NormalizedMeanSquaredError(Prediction, target)

\* C12: the normalized-MSE evaluator returns NormalizedMeanSquaredError of
\* the prediction and the target when that value is finite and the largest
\* representable scalar when it is NaN or infinite; what it returns is finite
C12_NmseFiniteOrMax ==
    (epc = "returned" /\ kind = "NMSE") =>
        /\ fitness = (IF IsFinite(PredictionNmse) THEN PredictionNmse ELSE NumericMax)
        /\ IsFinite(fitness)

C12_Witness ==
    /\ epc = "returned"
    /\ kind = "NMSE"
    /\ range.Size >= 1
    /\ PredictionNmse = PInf
    /\ fitness = NumericMax


\* C13: the R-squared evaluator returns a fitness in [0, 1] for every value
\* the RSquared routine can return, also one right below 0 or right above 1
C13_FitnessInUnitInterval ==
    (epc = "returned" /\ kind = "R2") =>
        /\ IsFinite(fitness)
        /\ LowerBound <= fitness
        /\ fitness <= UpperBound


\* a step that enters operator(), and one on which Optimize has handed its
\* summary back to operator()
InvocationStep == epc \in {"idle", "returned"} /\ epc' \notin {"idle", "returned"}

OptimizerReturnedStep == epc = "optimize" /\ epc' # "optimize"

\* C14: fitnessEvaluations grows by exactly 1 on every invocation and by
\* nothing else; localEvaluations grows by exactly the iterations recorded in
\* the summary of each optimizer run and by nothing else; neither counter
\* decreases; with an iterations setting of 0 localEvaluations stays as it is
C14_Counters ==
    [][ /\ fitnessEvaluations' =
               fitnessEvaluations + (IF InvocationStep THEN 1 ELSE 0)
        /\ localEvaluations' =
               localEvaluations + (IF OptimizerReturnedStep THEN summary.iterations ELSE 0)
        /\ fitnessEvaluations' >= fitnessEvaluations
        /\ localEvaluations' >= localEvaluations
        /\ (evalIterations = 0 => localEvaluations' = localEvaluations) ]_vars

C14_Witness ==
    /\ epc = "returned"
    /\ fitnessEvaluations = 2
    /\ localEvaluations >= 3
    /\ summary.iterations < localEvaluations

\* C15: within one invocation the optimizer runs first and only when the
\* iterations setting is positive, its coefficients are in the tree before the
\* interpreter starts on the final prediction, the fitness is the reduction
\* of the prediction of that tree against the target; with a setting of 0 the
\* optimizer is not invoked and the tree stays as it was
C15_FixedOrder ==
    [][ /\ (InvocationStep =>
               epc' = (IF evalIterations > 0 THEN "optimize" ELSE "evaluate"))
        /\ (opc' # opc =>
               /\ evalIterations > 0
               /\ epc' = "optimize"
               /\ pc' = pc)
        /\ (OptimizerReturnedStep =>
               /\ opc = "done"
               /\ epc' = "evaluate"
               /\ pc' = "setup"
               /\ (coef # <<>> => tree = SetCoefficients(treeIn, coef)))
        /\ (pc' # pc => epc' = "evaluate" /\ opc \in {"idle", "done"})
        /\ (tree' # tree => epc = "optimize" /\ evalIterations > 0)
        /\ (epc' = "returned" /\ epc # "returned" =>
               /\ epc = "evaluate"
               /\ pc = "done"
               /\ fitness' \in FitnessValues(kind, Prediction, target))
        /\ (fitness' # fitness => epc' = "returned" /\ epc = "evaluate")
        /\ (evalIterations = 0 =>
               /\ opc' = "idle"
               /\ calls' = <<>>
               /\ tree' = treeIn') ]_vars

C15_Witness ==
    /\ epc = "returned"
    /\ fitnessEvaluations = 1
    /\ evalIterations > 0
    /\ summary.iterations >= 1
    /\ tree # treeIn
    /\ tree = SetCoefficients(treeIn, coef)
    /\ fitness \in FitnessValues(kind, Prediction, target)


\* ------------------------------------------- two invocations side by side
\* variant: one scratch matrix for all invocations, the one allocated first
ScratchMatrixShared(own, other) == IF other = <<>> THEN own ELSE other

\* line 78: m is a local object of the invocation
ScratchMatrix(own, other) == own

\* the second invocation: lines 77-94
Setup2 ==
    /\ pc2 = "setup"
    /\ LET su == SetupPass(tree, dataset, parameters2, BATCHSIZE, uninit)
       IN  /\ m2' = su.m
           /\ indices2' = su.indices
           /\ idx2' = su.idx
    /\ row2' = 0
    /\ pc2' = "batch"
    /\ UNCHANGED <<inputVars, evalVars, optVars, fineVars, fitVars, crossVars>>
    /\ UNCHANGED <<result2, range2, parameters2>>

\* the second invocation: one iteration of the loop at line 97
Batch2 ==
    /\ pc2 = "batch"
    /\ row2 < range2.Size
    /\ LET st == BatchPass(tree, dataset, range2, parameters2, indices2, BATCHSIZE, row2,
                           ScratchMatrix(m2, m))
       IN  /\ m2' = st.m
           /\ idx2' = st.idx
           /\ IF st.fatal
              THEN /\ pc2' = "terminated"
                   /\ UNCHANGED <<result2, row2>>
              ELSE /\ result2' = CopyOut(result2, LastCol(st.m, Len(tree), BATCHSIZE, uninit),
                                          row2, Min2(BATCHSIZE, range2.Size - row2))
                   /\ row2' = row2 + BATCHSIZE
                   /\ pc2' = "batch"
    /\ UNCHANGED <<inputVars, evalVars, optVars, fineVars, fitVars, crossVars>>
    /\ UNCHANGED <<indices2, range2, parameters2>>

\* the second invocation: lines 205-207
Finish2 ==
    /\ pc2 = "batch"
    /\ row2 >= range2.Size
    /\ result2' = WriteSpan(result2, Sanitize(Span(result2, range2.Size)))
    /\ pc2' = "done"
    /\ UNCHANGED <<inputVars, evalVars, optVars, fineVars, fitVars, crossVars>>
    /\ UNCHANGED <<m2, indices2, idx2, row2, range2, parameters2>>

\* parameter buffers that differ from the tree's own coefficients
TrialParameters(nodes) ==
    {NullParameters} \cup { Pointer(p) : p \in TrialPoints(GetCoefficients(nodes)) }

\* two callers evaluate the same tree on the same dataset, each over its own
\* range, with its own parameter buffer and its own result vector
InitPar ==
    /\ tree \in FitTrees
    /\ dataset \in Datasets
    /\ range \in OptRanges(dataset)
    /\ range2 \in { r \in Ranges(dataset) : r.Start = 0 }
    /\ BATCHSIZE \in 2..MaxBatch
    /\ parameters \in ParameterChoices(tree)
    /\ parameters2 \in TrialParameters(tree)
    /\ uninit \in Uninitialised
    /\ pc = "setup"
    /\ m = <<>>
    /\ indices = <<>>
    /\ idx = 0
    /\ row = 0
    /\ result = NewVector(range.Size)
    /\ pc2 = "setup"
    /\ m2 = <<>>
    /\ indices2 = <<>>
    /\ idx2 = 0
    /\ row2 = 0
    /\ result2 = NewVector(range2.Size)
    /\ OptIdle
    /\ FineIdle /\ FitIdle /\ CrossIdle

NextPar == Setup \/ Batch \/ Finish \/ Setup2 \/ Batch2 \/ Finish2

SpecPar == InitPar /\ [][NextPar]_vars

\* C16: no step of an Evaluate invocation changes the tree, the dataset or a
\* parameter buffer, and whichever way the steps of two invocations are
\* interleaved, each returns in its own result span what it returns when it
\* runs alone, and leaves the cell behind that span as it was
C16_InvocationsIndependent ==
    [][ /\ tree' = tree
        /\ dataset' = dataset
        /\ parameters' = parameters
        /\ parameters2' = parameters2
        /\ (pc' = "done" =>
               result' = Evaluate(tree, dataset, range, parameters, BATCHSIZE, uninit)
                            \o <<Canary>>)
        /\ (pc2' = "done" =>
               result2' = Evaluate(tree, dataset, range2, parameters2, BATCHSIZE, uninit)
                             \o <<Canary>>) ]_vars

\* both have returned, their steps were interleaved, their parameters differ
C16_Witness ==
    /\ pc = "done"
    /\ pc2 = "done"
    /\ range.Size > BATCHSIZE
    /\ range2.Size > BATCHSIZE
    /\ ~parameters2.null
    /\ parameters2 # parameters
    /\ \E i \in 1..Len(tree) : IsConstant(tree[i])
    /\ Span(result, range.Size) # Span(result2, range.Size)


\* ------------------------------------------------ Evaluate, node by node
\* variant: the cursor goes on from where the last pass left it
BatchCursorKept(cursor) == cursor

\* line 98: idx = 0
BatchCursor(cursor) == 0

\* variant: the loop advances by one row
NextRowByOne(rw, B) == rw + 1

\* line 97: row += BATCHSIZE
NextRow(rw, B) == rw + B

\* variant: a binary node with another arity than 2 is rejected
TerminatesOnArity(nodes, i, st) ==
    st.fatal \/ (nodes[i + 1].Type \in BinaryTypes /\ nodes[i + 1].Arity # 2)

\* lines 197-200: std::terminate is reached through the default case only
Terminates(nodes, i, st) == st.fatal

\* lines 77-82: scratch matrix, column indices, cursor
SetupBegin ==
    /\ pc = "setup"
    /\ m' = Allocate(Len(tree), BATCHSIZE, uninit)
    /\ indices' = [i \in 0..(Len(tree) - 1) |-> 0]
    /\ idx' = 0
    /\ node' = 0
    /\ pc' = "setupNode"
    /\ UNCHANGED <<inputVars, optVars, row, result, writes, fitVars, parVars, crossVars>>

\* lines 83-92, one iteration
SetupNode ==
    /\ pc = "setupNode"
    /\ node < Len(tree)
    /\ LET st == SetupFrom(SubSeq(tree, 1, node + 1), dataset, parameters, BATCHSIZE, node,
                           [m |-> m, indices |-> indices, idx |-> idx])
       IN  /\ m' = st.m
           /\ indices' = st.indices
           /\ idx' = st.idx
    /\ node' = node + 1
    /\ UNCHANGED <<inputVars, optVars, pc, row, result, writes, fitVars, parVars, crossVars>>

\* lines 94-97: the setup loop has ended, the batch loop starts at row 0
SetupEnd ==
    /\ pc = "setupNode"
    /\ node >= Len(tree)
    /\ row' = 0
    /\ pc' = "batch"
    /\ UNCHANGED <<inputVars, optVars, m, indices, idx, result, fineVars, fitVars,
                   parVars, crossVars>>

\* lines 97-100: a batch begins
BatchBegin ==
    /\ pc = "batch"
    /\ row < numRows
    /\ idx' = BatchCursor(idx)
    /\ node' = 0
    /\ pc' = "node"
    /\ UNCHANGED <<inputVars, optVars, m, indices, row, result, writes, fitVars,
                   parVars, crossVars>>

\* lines 100-201, one iteration of the node loop
NodeAct ==
    /\ pc = "node"
    /\ node < Len(tree)
    /\ LET st == NodeStep(tree, dataset, range, parameters, indices, BATCHSIZE, row, node,
                          [m |-> m, idx |-> idx, fatal |-> FALSE])
       IN  /\ m' = st.m
           /\ idx' = st.idx
           /\ IF Terminates(tree, node, st)
              THEN pc' = "terminated" /\ node' = node
              ELSE pc' = "node" /\ node' = node + 1
    /\ UNCHANGED <<inputVars, optVars, indices, row, result, writes, fitVars,
                   parVars, crossVars>>

\* line 203 and the loop increment: the root column goes to the result
CopyRoot ==
    /\ pc = "node"
    /\ node >= Len(tree)
    /\ result' = CopyOut(result, LastCol(m, Len(tree), BATCHSIZE, uninit), row, remainingRows)
    /\ writes' = [k \in 1..Len(writes) |->
                     IF k - 1 >= row /\ k - 1 < row + remainingRows
                     THEN writes[k] + 1 ELSE writes[k]]
    /\ row' = NextRow(row, BATCHSIZE)
    /\ pc' = "batch"
    /\ UNCHANGED <<inputVars, optVars, m, indices, idx, node, fitVars, parVars, crossVars>>

\* variadic nodes: a binary function with three operand subtrees
VariadicTrees ==
    { << Node("Constant", 0, 0, 1, 3, "Constant"),
         Node("Variable", 0, 0, 1, 2, "x"),
         Node("Variable", 0, 0, 1, 1, "y"),
         Node(b, 3, 3, 2, 0, b) >> : b \in {"Add", "Mul"} }
    \cup
    { << Node("Variable", 0, 0, 1, 1, "y"),
         Node("Constant", 0, 0, 1, 3, "Constant"),
         Node("Variable", 0, 0, 1, 2, "x"),
         Node("Exp", 1, 1, 2, 0, "Exp"),
         Node(b, 3, 4, 3, 0, b) >> : b \in {"Sub", "Div"} }

StepTrees == FitTrees \cup VariadicTrees

\* a parameter buffer whose entries all differ
Ramp(nodes) == [k \in 1..Len(GetCoefficients(nodes)) |-> k + 3]

InitStep ==
    /\ tree \in StepTrees
    /\ dataset \in Datasets
    /\ range \in Ranges(dataset)
    /\ BATCHSIZE \in 1..MaxBatch
    /\ parameters \in ParameterChoices(tree) \cup {Pointer(Ramp(tree))}
    /\ uninit \in Uninitialised
    /\ pc = "setup"
    /\ m = <<>>
    /\ indices = <<>>
    /\ idx = 0
    /\ row = 0
    /\ result = NewVector(range.Size)
    /\ node = 0
    /\ writes = [k \in 1..(range.Size + 1) |-> 0]
    /\ OptIdle
    /\ FitIdle /\ ParIdle /\ CrossIdle

NextStep ==
    SetupBegin \/ SetupNode \/ SetupEnd \/ BatchBegin \/ NodeAct \/ CopyRoot \/ Finish

SpecStep == InitStep /\ [][NextStep]_vars

\* the run node by node returns what the run batch by batch returns
StepMatchesEvaluate ==
    pc = "done" =>
        result = Evaluate(tree, dataset, range, parameters, BATCHSIZE, uninit) \o <<Canary>>


\* the number of Constant and Variable nodes at indices below i, and in all
CoefficientsBefore(i) == Len(GetCoefficients(SubSeq(tree, 1, i)))

CoefficientCount == Len(GetCoefficients(tree))

\* C17: with a parameter buffer, the cursor is the number of Constant and
\* Variable nodes below the node at hand, in setup and in every batch; it is
\* the coefficient count after setup and 0 when a batch begins; a Constant in
\* setup and a Variable in a batch take the parameter at that position, which
\* lies below the coefficient count
C17_CursorConsistent ==
    [][ (~parameters.null /\ Len(parameters.data) = CoefficientCount) =>
          /\ (pc' = "setupNode" => idx' = CoefficientsBefore(node'))
          /\ (pc = "setupNode" /\ pc' = "batch" => idx' = CoefficientCount)
          /\ (pc = "batch" /\ pc' = "node" => idx' = 0)
          /\ (pc' = "node" => idx' = CoefficientsBefore(node'))
          /\ (pc = "setupNode" /\ node < Len(tree) /\ IsConstant(tree[node + 1]) =>
                /\ idx < CoefficientCount
                /\ \A r \in Rows(BATCHSIZE) :
                      m'[node][r] = parameters.data[CoefficientsBefore(node) + 1])
          /\ (pc = "node" /\ node < Len(tree) /\ IsVariable(tree[node + 1]) =>
                /\ idx < CoefficientCount
                /\ \A r \in 0..(remainingRows - 1) :
                      m'[node][r] =
                          FMul(parameters.data[CoefficientsBefore(node) + 1],
                               ColumnValue(dataset, GetIndex(dataset, tree[node + 1].HashValue),
                                           range.Start + row + r))) ]_vars

\* in a batch after the first, a Variable behind other coefficient nodes has
\* taken its weight from the buffer
C17_Witness ==
    /\ pc = "node"
    /\ row >= BATCHSIZE
    /\ parameters = Pointer(Ramp(tree))
    /\ node = Len(tree)
    /\ idx = CoefficientCount
    /\ \E i \in 1..(Len(tree) - 1) :
          /\ IsVariable(tree[i + 1])
          /\ CoefficientsBefore(i) >= 1
          /\ m[i][0] = FMul(CoefficientsBefore(i) + 4,
                            ColumnValue(dataset, indices[i], range.Start + row))


\* C18: batches are taken at rows 0, B, 2B, ... in increasing order; after
\* the nodes of a batch, the first min(B, Size - row) entries of the root
\* column go to result[row .. row + remainingRows) and nothing else of the
\* result memory changes; when the loop has ended every index below Size has
\* been written exactly once, the cell behind the vector never; the vector
\* has Size entries, and with Size = 0 no batch is processed
C18_EachIndexOnce ==
    [][ /\ Len(result') = range.Size + 1
        /\ result'[range.Size + 1] = Canary
        /\ writes'[range.Size + 1] = 0
        /\ \A k \in 1..range.Size : writes'[k] <= 1
        /\ (pc' \in {"batch", "node"} => row' % BATCHSIZE = 0)
        /\ (row' # row => pc = "node" /\ pc' = "batch" /\ row' = row + BATCHSIZE)
        /\ (pc' = "node" => range.Size > 0 /\ row' < range.Size)
        /\ (result' # result /\ pc' # "done" => pc = "node" /\ pc' = "batch")
        /\ (pc = "node" /\ pc' = "batch" =>
               \A k \in 0..(range.Size - 1) :
                  IF row <= k /\ k < row + Min2(BATCHSIZE, range.Size - row)
                  THEN /\ result'[k + 1] = m[Len(tree) - 1][k - row]
                       /\ writes[k + 1] = 0
                       /\ writes'[k + 1] = 1
                  ELSE /\ result'[k + 1] = result[k + 1]
                       /\ writes'[k + 1] = writes[k + 1])
        /\ (pc' = "batch" /\ row' >= range.Size =>
               \A k \in 1..range.Size : writes'[k] = 1) ]_vars

\* the loop has ended after a partial last batch
C18_Witness ==
    /\ pc = "batch"
    /\ row >= range.Size
    /\ BATCHSIZE >= 2
    /\ range.Size > BATCHSIZE
    /\ range.Size % BATCHSIZE # 0
    /\ \A k \in 1..range.Size : writes[k] = 1
    /\ writes[range.Size + 1] = 0


BinaryValue(type, a, b) ==
    CASE type = "Add" -> FAdd(a, b)
      [] type = "Sub" -> FSub(a, b)
      [] type = "Mul" -> FMul(a, b)
      [] type = "Div" -> FDiv(a, b)

\* C19: whatever its Arity says, a node of type Add, Sub, Mul or Div at index
\* i gets, row by row, the function's value on the columns at i-1 and
\* i-2-Length(i-1); both lie below i; every other column stays as it is and
\* the node is not rejected, so that with Arity 3 the third operand subtree
\* has no part in the result
C19_TwoChildrenConsumed ==
    [][ (pc = "node" /\ node < Len(tree) /\ tree[node + 1].Type \in BinaryTypes) =>
          LET c1 == node - 1
              c2 == node - 2 - tree[node].Length
          IN  /\ 0 <= c2
              /\ c2 < c1
              /\ c1 < node
              /\ pc' = "node"
              /\ node' = node + 1
              /\ \A r \in Rows(BATCHSIZE) :
                    m'[node][r] = BinaryValue(tree[node + 1].Type, m[c1][r], m[c2][r])
              /\ \A i \in 0..(Len(tree) - 1) : i # node => m'[i] = m[i] ]_vars

\* Div with the three operands y, 3 and Exp(x): its column is the quotient
\* of the columns of Exp(x) and 3, the column of y is left out
C19_Witness ==
    /\ pc = "node"
    /\ node = Len(tree)
    /\ Len(tree) = 5
    /\ Root(tree).Type = "Div"
    /\ Root(tree).Arity = 3
    /\ row >= BATCHSIZE
    /\ \A r \in Rows(BATCHSIZE) : m[4][r] = FDiv(m[3][r], m[1][r])
    /\ \E r \in Rows(BATCHSIZE) : m[4][r] # FDiv(m[3][r], m[0][r])


\* ------------------------------------------------------ subtree crossover
\* Tree::Level: the number of nodes on the path from node i up to the root,
\* node i not counted
Level(nodes, i) ==
    Cardinality({ a \in (i + 1)..(Len(nodes) - 1) : a - nodes[a + 1].Length <= i })

MaxOf(S) == CHOOSE x \in S : \A y \in S : y <= x

\* the indices of the operands of node i, nearest first
RECURSIVE ChildIndices(_, _, _)
ChildIndices(nodes, c, k) ==
    IF k = 0 THEN <<>>
    ELSE <<c>> \o ChildIndices(nodes, c - 1 - nodes[c + 1].Length, k - 1)

\* Tree::UpdateNodes: Length and Depth of every node, recomputed in node
\* order from the Arity fields
RECURSIVE UpdateFrom(_, _)
UpdateFrom(nodes, i) ==
    IF i >= Len(nodes) THEN nodes
    ELSE LET s == nodes[i + 1]
             ch == ChildIndices(nodes, i - 1, s.Arity)
             len == s.Arity + Sum([k \in 1..Len(ch) |-> nodes[ch[k] + 1].Length])
             dep == 1 + MaxOf({ nodes[ch[k] + 1].Depth : k \in 1..Len(ch) })
         IN  UpdateFrom([nodes EXCEPT ![i + 1] =
                            IF IsLeaf(s) THEN [s EXCEPT !.Length = 0, !.Depth = 1]
                            ELSE [s EXCEPT !.Length = len, !.Depth = dep]],
                        i + 1)

UpdateNodes(nodes) == UpdateFrom(nodes, 0)

\* a long or size_t value passed as size_t
ToSize(v) == v % Pow2(SizeBits)

\* crossover.cpp lines 5-45: the results the random draws can give. The
\* internal nodes that fit both limits when an internal node is asked for,
\* any leaf otherwise or when no internal node fits
SelectRandomBranch(nodes, maxBranchDepth, maxBranchLength) ==
    IF maxBranchDepth = 0 \/ maxBranchLength = 0 THEN {NoValue}
    ELSE LET all == 0..(Len(nodes) - 1)
             leaves == { i \in all : IsLeaf(nodes[i + 1]) }
             fitting == { i \in all \ leaves :
                             /\ nodes[i + 1].Length + 1 <= maxBranchLength
                             /\ nodes[i + 1].Depth <= maxBranchDepth }
         IN  { [has_value |-> TRUE, value |-> i] : i \in fitting \cup leaves }

\* variant: the nodes below the cut point stay in the child
SpliceKeepingOperands(left, i, right, j) ==
    SubSeq(left, 1, i)
    \o SubSeq(right, j - right[j + 1].Length + 1, j + 1)
    \o SubSeq(left, i + 2, Len(left))

\* crossover.cpp lines 61-65: the three copies
Splice(left, i, right, j) ==
    SubSeq(left, 1, i - left[i + 1].Length)
    \o SubSeq(right, j - right[j + 1].Length + 1, j + 1)
    \o SubSeq(left, i + 2, Len(left))

\* variant: the branch may be as deep as a whole tree
BranchDepthLimitWhole(md, nodes, i) == md

\* crossover.cpp line 52: maxDepth - lhs.Level(i), passed as size_t
BranchDepthLimit(md, nodes, i) == SizeSub(md, Level(nodes, i))

\* variant: the branch may be as long as a whole tree
BranchLengthLimitWhole(ml, nodes, i) == ml

\* crossover.cpp lines 53-54: maxLength - partialTreeLength, passed as size_t
BranchLengthLimit(ml, nodes, i) ==
    LET partialTreeLength == Len(nodes) - (nodes[i + 1].Length + 1)
    IN  SizeSub(ml, partialTreeLength)

\* crossover.cpp line 49: the cut point in lhs
SelectCut ==
    /\ cpc = "start"
    /\ cut' \in SelectRandomBranch(lhs, ToSize(maxDepth), ToSize(maxLength))
    /\ IF cut'.has_value
       THEN cpc' = "cut" /\ child' = child
       ELSE cpc' = "done" /\ child' = lhs
    /\ UNCHANGED <<inputVars, evalVars, optVars, fineVars, fitVars, parVars>>
    /\ UNCHANGED <<lhs, rhs, maxDepth, maxLength, branch>>

\* crossover.cpp lines 51-70: the limits for the branch, the branch in rhs,
\* the child
SelectBranch ==
    /\ cpc = "cut"
    /\ LET i == cut.value
           maxBranchDepth == BranchDepthLimit(maxDepth, lhs, i)
           maxBranchLength == BranchLengthLimit(maxLength, lhs, i)
       IN  /\ branch' \in SelectRandomBranch(rhs, maxBranchDepth, maxBranchLength)
           /\ child' = IF branch'.has_value
                       THEN UpdateNodes(Splice(lhs, i, rhs, branch'.value))
                       ELSE lhs
    /\ cpc' = "done"
    /\ UNCHANGED <<inputVars, evalVars, optVars, fineVars, fitVars, parVars>>
    /\ UNCHANGED <<lhs, rhs, maxDepth, maxLength, cut>>

CrossTrees == UNION { TreesOfSize("Exp", "Sub", k) : k \in 1..MaxCrossNodes }

\* no Evaluate call at hand
EvalIdle ==
    /\ tree = <<>>
    /\ dataset = [Variables |-> <<>>, Values |-> <<>>]
    /\ range = [Start |-> 0, Size |-> 0]
    /\ BATCHSIZE = 1
    /\ parameters = NullParameters
    /\ uninit = 0
    /\ pc = "idle"
    /\ m = <<>>
    /\ indices = <<>>
    /\ idx = 0
    /\ row = 0
    /\ result = <<>>

InitCross ==
    /\ lhs \in CrossTrees
    /\ rhs \in CrossTrees
    /\ maxDepth \in 0..MaxCrossNodes
    /\ maxLength \in 0..(MaxCrossNodes + 1)
    /\ cpc = "start"
    /\ cut = NoValue
    /\ branch = NoValue
    /\ child = <<>>
    /\ EvalIdle /\ OptIdle /\ FineIdle /\ FitIdle /\ ParIdle

NextCross == SelectCut \/ SelectBranch

SpecCross == InitCross /\ [][NextCross]_vars

\* the same node but for the cached Length and Depth
SameNode(a, b) ==
    /\ a.Type = b.Type
    /\ a.Arity = b.Arity
    /\ a.Value = b.Value
    /\ a.HashValue = b.HashValue

\* the child is lhs with the subtree at the cut point replaced by the
\* subtree of rhs at the branch
ChildComposed ==
    (cpc = "done" /\ cut.has_value /\ branch.has_value) =>
        LET i == cut.value
            j == branch.value
            li == lhs[i + 1].Length
            lj == rhs[j + 1].Length
            first == i - li
        IN  /\ Len(child) = Len(lhs) - (li + 1) + (lj + 1)
            /\ \A k \in 0..(first - 1) : child[k + 1] = lhs[k + 1]
            /\ \A k \in 0..lj : child[first + k + 1] = rhs[j - lj + k + 1]
            /\ \A k \in (i + 1)..(Len(lhs) - 1) :
                  SameNode(child[k - li + lj + 1], lhs[k + 1])
            /\ WellFormed(child)
            /\ Root(child).Length + 1 = Len(child)
            /\ SameNode(Root(child), IF i = Len(lhs) - 1 THEN rhs[j + 1] ELSE Root(lhs))

\* C20: with cut point i in lhs and branch j in rhs the child is the nodes
\* of lhs before the subtree at i, then the subtree of rhs at j, then the
\* nodes of lhs after i, in their order; it has
\* Len(lhs) - (Length(lhs[i]) + 1) + (Length(rhs[j]) + 1) nodes and is a
\* well-formed postfix tree with its root last; lhs and rhs stay as they are
C20_ChildComposition ==
    [][ /\ lhs' = lhs
        /\ rhs' = rhs
        /\ ChildComposed' ]_vars

\* an inner subtree of lhs was replaced by a larger subtree of rhs
C20_Witness ==
    /\ cpc = "done"
    /\ cut.has_value
    /\ branch.has_value
    /\ cut.value < Len(lhs) - 1
    /\ cut.value - lhs[cut.value + 1].Length > 0
    /\ lhs[cut.value + 1].Length = 0
    /\ rhs[branch.value + 1].Length = 1
    /\ Len(child) = Len(lhs) + 1
    /\ Root(child).Length = Root(lhs).Length + 1


\* operator() has returned a tree made of both parents
BranchInserted == cpc = "done" /\ cut.has_value /\ branch.has_value

\* C21: with lhs of at most maxLength nodes and maxLength at least 1, the
\* returned tree has at most maxLength nodes, whether the branch is an
\* internal node, a leaf, or a leaf taken because no internal node fits
C21_ChildLengthBounded ==
    (cpc = "done" /\ Len(lhs) <= maxLength /\ maxLength >= 1) =>
        Len(child) <= maxLength

\* a leaf of lhs was replaced by an internal branch that fills the limit
C21_Witness ==
    /\ BranchInserted
    /\ Len(lhs) < maxLength
    /\ lhs[cut.value + 1].Length = 0
    /\ rhs[branch.value + 1].Length >= 1
    /\ Len(child) = maxLength
    /\ Len(child) > Len(lhs)

\* Tree::Depth: the Depth of the root
Depth(nodes) == Root(nodes).Depth

====
